---- MODULE Spec2Model ----
(***************************************************************************)
(* Model of the BLE controller HTTP gateway (src/src/main.rs): the         *)
(* bootstrap acquisition in main, the health monitor task                  *)
(* (ble_monitor_task), the request handlers (send_to_peripheral) and the   *)
(* shared handle AppState.peripheral, a tokio Mutex<Option<Peripheral>>.   *)
(*                                                                         *)
(* An Option<T> is modelled as a set with at most one element.  The tokio  *)
(* mutex is a FIFO semaphore: lockQueue is the sequence of tasks that      *)
(* called lock() and have not yet dropped the guard; its head holds the    *)
(* guard, the others wait in call order.                                   *)
(***************************************************************************)
EXTENDS Integers, Sequences, FiniteSets, TLC

\* Number of BLE devices in radio range.
NumDevices == 2
\* Number of HTTP request tasks that can be in flight together.
NumReqs == 2

Devices == 1..NumDevices
Reqs == 1..NumReqs

\* Tasks that take the lock of AppState.peripheral.
MainTask == <<"main", 0>>
MonTask == <<"mon", 0>>
ReqTask(r) == <<"req", r>>

VARIABLES
    mainPc,       \* position of main()
    abortCause,   \* the call whose failure ended main() ("none" while it runs)
    bootList,     \* main's `peripherals` (line 163)
    bootTarget,   \* main's `target` (line 166)
    monPc,        \* position of ble_monitor_task
    monExit,      \* the call whose failure ended ble_monitor_task
    monList,      \* the monitor's `peripherals` (line 289)
    monTarget,    \* the monitor's `target` (line 290)
    handle,       \* *state.peripheral: {} is None, {d} is Some(d)
    lockQueue,    \* holder (head) and waiters of state.peripheral's mutex
    reqPc,        \* position of each request handler
    resp,         \* status code each handler returned
    reqWrites,    \* characteristic writes each handler has issued
    reqFound,     \* what each handler found: the Option, then the characteristic
    reqPayload,   \* the bytes each handler passed to peripheral.write
    advertising,  \* devices whose properties list the controller service
    discovered,   \* adapter.peripherals(), in report order
    scanFilter,   \* "off", or the filter of the running scan
    selList,      \* a device list handed to find_and_print_peripherals
    selReads,     \* what properties() returns for each device of selList
    selOut,       \* what find_and_print_peripherals returned for them
    greeting      \* outcome of the "Connected" write of the running acquisition

vars == <<mainPc, abortCause, bootList, bootTarget, monPc, monExit, monList,
          monTarget, handle, lockQueue, reqPc, resp, reqWrites, reqFound,
          reqPayload, advertising, discovered, scanFilter, selList, selReads,
          selOut, greeting>>

mainVars == <<mainPc, abortCause, bootList, bootTarget>>
monVars == <<monPc, monExit, monList, monTarget>>
reqVars == <<reqPc, resp, reqWrites, reqFound, reqPayload>>
envVars == <<advertising, discovered>>
selVars == <<selList, selReads, selOut>>

----------------------------------------------------------------------------
\* The mutex of AppState.peripheral.

\* lock(): the caller joins the queue; it holds the guard once it is the head.
Acquire(q, t) == Append(q, t)

\* Dropping the guard hands the lock to the next waiter.
Release(q) == Tail(q)

GrantedNoMutex(t) == TRUE

\* lock().await has returned for task t.
Granted(t) == lockQueue # <<>> /\ Head(lockQueue) = t

----------------------------------------------------------------------------
\* Device Selector.

\* What peripheral.properties().await gives for one device.
PropOutcomes == {"err", "none", "plain", "target"}

\* The outcomes a read of device d's properties can have now.
ReadOutcomes(d, faults) ==
    (IF faults THEN {"err", "none"} ELSE {})
        \cup {IF d \in advertising THEN "target" ELSE "plain"}

PropsFor(list, faults) ==
    { p \in [1..Len(list) -> PropOutcomes] :
        \A i \in 1..Len(list) : p[i] \in ReadOutcomes(list[i], faults) }

\* The loop of find_and_print_peripherals from index i on, `result` so far.
RECURSIVE SelectFrom(_, _, _, _)
SelectFrom(list, props, i, result) ==
    IF i > Len(list) THEN [err |-> FALSE, val |-> result]
    ELSE IF props[i] = "err" THEN [err |-> TRUE, val |-> {}]
    ELSE IF props[i] = "target" /\ result = {}
         THEN SelectFrom(list, props, i + 1, {list[i]})
    ELSE SelectFrom(list, props, i + 1, result)

find_and_print_peripherals(list, props) == SelectFrom(list, props, 1, {})

\* Service uuids: CONTROLLER_SERVICE_ID (35) and any other.
ServiceIds == {"controller", "other"}
TargetService == "controller"

\* props.rssi and props.local_name, which the selector only logs (324-326).
Rssis == {-60, -40}
Names == {"(unknown)", "vibe"}

\* What peripheral.properties().await can return: Err, Ok(None), or
\* Ok(Some(props)) with the advertised services, the rssi and the name.
Reads ==
    {[status |-> st, services |-> {}, rssi |-> 0, name |-> "(unknown)"] :
        st \in {"err", "none"}}
    \cup [status : {"some"}, services : SUBSET ServiceIds, rssi : Rssis,
          name : Names]

\* `?` on the read, `if let Some(props)`, and
\* props.services.iter().any(|s| *s == target_service) (323-334).
PropKind(read) ==
    IF read.status = "err" THEN "err"
    ELSE IF read.status = "none" THEN "none"
    ELSE IF TargetService \in read.services THEN "target"
    ELSE "plain"

\* Device lists in report order: each address once.
SelLists ==
    {l \in UNION {[1..n -> Devices] : n \in 0..NumDevices} :
        \A i, j \in 1..Len(l) : l[i] = l[j] => i = j}

----------------------------------------------------------------------------
Init ==
    /\ mainPc = "init"
    /\ abortCause = "none"
    /\ bootList = <<>>
    /\ bootTarget = {}
    /\ monPc = "off"
    /\ monExit = "none"
    /\ monList = <<>>
    /\ monTarget = {}
    /\ handle = {}
    /\ lockQueue = <<>>
    /\ reqPc = [r \in Reqs |-> "idle"]
    /\ resp = [r \in Reqs |-> "none"]
    /\ reqWrites = [r \in Reqs |-> 0]
    /\ reqFound = [r \in Reqs |-> "unset"]
    /\ reqPayload = [r \in Reqs |-> <<>>]
    /\ advertising \in SUBSET Devices
    /\ discovered = <<>>
    /\ scanFilter = "off"
    /\ selList = <<>>
    /\ selReads = <<>>
    /\ selOut = [ran |-> FALSE, err |-> FALSE, val |-> {}]
    /\ greeting = "none"

\* The process runs until main() returns or panics.
Alive == mainPc # "aborted"

----------------------------------------------------------------------------
\* main(): bootstrap acquisition, publish, spawn, listen.

\* The calls of main whose error `?` (or expect) turns into the end of main.
MainFallible == {"init", "start_scan", "peripherals", "stop_found",
                 "stop_none", "restart", "connect", "discover", "bind"}

\* Manager::new, adapters() and the first adapter all succeed.
MainInit ==
    /\ mainPc = "init"
    /\ mainPc' = "start_scan"
    /\ UNCHANGED <<selVars, greeting, abortCause, bootList, bootTarget, monVars, handle,
                   lockQueue, reqVars, envVars, scanFilter>>

\* adapters is empty: expect("No Bluetooth adapter found") panics.
MainNoAdapter ==
    /\ mainPc = "init"
    /\ mainPc' = "aborted"
    /\ abortCause' = "no_adapter"
    /\ UNCHANGED <<selVars, greeting, bootList, bootTarget, monVars, handle, lockQueue, reqVars,
                   envVars, scanFilter>>

\* A fallible call returns Err and `?` returns it from main.
MainFail ==
    /\ mainPc \in MainFallible
    /\ mainPc' = "aborted"
    /\ abortCause' = mainPc
    /\ UNCHANGED <<selVars, greeting, bootList, bootTarget, monVars, handle, lockQueue, reqVars,
                   envVars, scanFilter>>

\* adapter.start_scan(filter) with the controller service filter, line 160.
MainStartScan ==
    /\ mainPc = "start_scan"
    /\ mainPc' = "peripherals"
    /\ scanFilter' = "service"
    /\ UNCHANGED <<selVars, greeting, abortCause, bootList, bootTarget, monVars, handle,
                   lockQueue, reqVars, envVars>>

\* let peripherals = adapter.peripherals().await?, line 163, before the loop.
MainPeripherals ==
    /\ mainPc = "peripherals"
    /\ bootList' = discovered
    /\ mainPc' = "select"
    /\ UNCHANGED <<selVars, greeting, abortCause, bootTarget, monVars, handle, lockQueue,
                   reqVars, envVars, scanFilter>>

\* find_and_print_peripherals(&peripherals, ..) at the head of the loop.
MainSelect(faults) ==
    /\ mainPc = "select"
    /\ \E props \in PropsFor(bootList, faults) :
         LET res == find_and_print_peripherals(bootList, props) IN
           /\ ~res.err
           /\ bootTarget' = res.val
           /\ mainPc' = IF res.val # {} THEN "stop_found" ELSE "stop_none"
    /\ UNCHANGED <<selVars, greeting, abortCause, bootList, monVars, handle, lockQueue, reqVars,
                   envVars, scanFilter>>

\* A property read fails inside the selector: `?` twice, main returns.
MainSelectErr ==
    /\ mainPc = "select"
    /\ \E props \in PropsFor(bootList, TRUE) :
         find_and_print_peripherals(bootList, props).err
    /\ mainPc' = "aborted"
    /\ abortCause' = "properties"
    /\ UNCHANGED <<selVars, greeting, bootList, bootTarget, monVars, handle, lockQueue, reqVars,
                   envVars, scanFilter>>

\* stop_scan, then break with the target (168-169).  `peripherals` is never
\* read after the loop, so the model forgets it here.
MainStopFound ==
    /\ mainPc = "stop_found"
    /\ scanFilter' = "off"
    /\ bootList' = <<>>
    /\ mainPc' = "connect"
    /\ UNCHANGED <<selVars, greeting, abortCause, bootTarget, monVars, handle, lockQueue,
                   reqVars, envVars>>

\* stop_scan, warn, sleep (171-173).
MainStopNone ==
    /\ mainPc = "stop_none"
    /\ scanFilter' = "off"
    /\ mainPc' = "restart"
    /\ UNCHANGED <<selVars, greeting, abortCause, bootList, bootTarget, monVars, handle,
                   lockQueue, reqVars, envVars>>

\* start_scan again, sleep, and back to the head of the loop (174-176):
\* `peripherals` is not read again.
MainRestart ==
    /\ mainPc = "restart"
    /\ scanFilter' = "service"
    /\ mainPc' = "select"
    /\ UNCHANGED <<selVars, greeting, abortCause, bootList, bootTarget, monVars, handle,
                   lockQueue, reqVars, envVars>>

\* connect_and_discover(&target): peripheral.connect() succeeds.
MainConnect ==
    /\ mainPc = "connect"
    /\ mainPc' = "discover"
    /\ UNCHANGED <<selVars, greeting, abortCause, bootList, bootTarget, monVars, handle,
                   lockQueue, reqVars, envVars, scanFilter>>

\* peripheral.discover_services() succeeds.
MainDiscover ==
    /\ mainPc = "discover"
    /\ mainPc' = "greet"
    /\ UNCHANGED <<selVars, greeting, abortCause, bootList, bootTarget, monVars, handle,
                   lockQueue, reqVars, envVars, scanFilter>>

\* What send_message(peripheral, KEYBOARD_DISPLAY_ID, "Connected") can do
\* (370-393): write acknowledged, write failed (Err), or characteristic not
\* found (warn, Ok).
GreetOutcomes == {"written", "write_failed", "char_missing"}

GreetingPropagated(outcome) ==
    IF outcome = "write_failed" THEN "err" ELSE "ignored"

\* `let _ = send_message(..).await;` (364): the Result is dropped.
GreetingResult(outcome) == "ignored"

\* The greeting in connect_and_discover, which then returns Ok(()); back in
\* main, state.peripheral.lock() is called (182).
MainGreet ==
    /\ mainPc = "greet"
    /\ \E outcome \in GreetOutcomes :
         /\ greeting' = outcome
         /\ IF GreetingResult(outcome) = "err"
            THEN /\ mainPc' = "aborted"
                 /\ abortCause' = "greet"
                 /\ UNCHANGED lockQueue
            ELSE /\ mainPc' = "publish"
                 /\ lockQueue' = Acquire(lockQueue, MainTask)
                 /\ UNCHANGED abortCause
    /\ UNCHANGED <<selVars, bootList, bootTarget, monVars, handle,
                   reqVars, envVars, scanFilter>>

\* { let mut peripheral = state.peripheral.lock().await;
\*   *peripheral = Some(target); }  (181-184): `target` is moved into the
\* handle.
MainPublish ==
    /\ mainPc = "publish" /\ Granted(MainTask)
    /\ handle' = bootTarget
    /\ bootTarget' = {}
    /\ lockQueue' = Release(lockQueue)
    /\ mainPc' = "spawn"
    /\ UNCHANGED <<selVars, greeting, abortCause, bootList, monVars, reqVars, envVars,
                   scanFilter>>

\* tokio::spawn(ble_monitor_task(state_clone)), 188-193.
MainSpawn ==
    /\ mainPc = "spawn"
    /\ mainPc' = "bind"
    /\ monPc' = "init"
    /\ greeting' = "none"
    /\ UNCHANGED <<selVars, abortCause, bootList, bootTarget, monExit, monList,
                   monTarget, handle, lockQueue, reqVars, envVars, scanFilter>>

\* TcpListener::bind succeeds and axum::serve starts accepting.
MainBind ==
    /\ mainPc = "bind"
    /\ mainPc' = "serving"
    /\ UNCHANGED <<selVars, greeting, abortCause, bootList, bootTarget, monVars, handle,
                   lockQueue, reqVars, envVars, scanFilter>>

----------------------------------------------------------------------------
\* ble_monitor_task: liveness poll every tick, clear and reconnect on loss.

\* The calls of the monitor whose error `?` returns from the task:
\* Manager::new/adapters (261-266) and, inside the reconnect loop,
\* start_scan (286), peripherals (289) and stop_scan (293, 305).
MonFallible == {"init", "rscan", "rlist", "rstop_found", "rstop_none"}

\* From the clear of the handle to the install of the new connection.
ReconnectPcs == {"rscan", "rlist", "rselect", "rstop_found", "rstop_none",
                 "rconnect", "rdiscover", "rgreet", "install_wait"}

\* Manager::new, adapters() and the first adapter succeed; the interval is set.
MonInit ==
    /\ Alive /\ monPc = "init"
    /\ monPc' = "tick"
    /\ UNCHANGED <<selVars, greeting, mainVars, monExit, monList, monTarget, handle, lockQueue,
                   reqVars, envVars, scanFilter>>

\* A fallible call returns Err: `?` returns it, main logs "BLE monitor error".
MonFail ==
    /\ Alive /\ monPc \in MonFallible
    /\ monPc' = "returned"
    /\ monExit' = monPc
    /\ UNCHANGED <<selVars, greeting, mainVars, monList, monTarget, handle, lockQueue, reqVars,
                   envVars, scanFilter>>

\* interval.tick().await; state.peripheral.lock() is called (271-273).
MonTick ==
    /\ Alive /\ monPc = "tick"
    /\ lockQueue' = Acquire(lockQueue, MonTask)
    /\ monPc' = "lock_wait"
    /\ UNCHANGED <<selVars, greeting, mainVars, monExit, monList, monTarget, handle, reqVars,
                   envVars, scanFilter>>

\* The guard is held: None ends the iteration (the guard drops), Some(p)
\* starts p.is_connected() with the guard held (274-275).
MonLocked ==
    /\ Alive /\ monPc = "lock_wait" /\ Granted(MonTask)
    /\ IF handle = {}
       THEN /\ lockQueue' = Release(lockQueue)
            /\ monPc' = "tick"
       ELSE /\ monPc' = "polling"
            /\ UNCHANGED lockQueue
    /\ UNCHANGED <<selVars, greeting, mainVars, monExit, monList, monTarget, handle, reqVars,
                   envVars, scanFilter>>

\* is_connected() returned Ok(true): the guard drops at the end of the loop body.
MonPollConnected ==
    /\ Alive /\ monPc = "polling"
    /\ lockQueue' = Release(lockQueue)
    /\ monPc' = "tick"
    /\ UNCHANGED <<selVars, greeting, mainVars, monExit, monList, monTarget, handle, reqVars,
                   envVars, scanFilter>>

\* is_connected() returned Ok(false) or Err: drop(peripheral), then
\* state.peripheral.lock() is called again (279-282).
MonPollLost ==
    /\ Alive /\ monPc = "polling"
    /\ lockQueue' = Acquire(Release(lockQueue), MonTask)
    /\ monPc' = "clear_wait"
    /\ UNCHANGED <<selVars, greeting, mainVars, monExit, monList, monTarget, handle, reqVars,
                   envVars, scanFilter>>

ClearedSkipped == handle

\* The value stored by `*state.peripheral.lock().await = None` (282).
Cleared == {}

\* The second lock is granted: the handle is set to None, the guard drops.
GuardKeptAfterClear(q) == q

\* The guard of `*state.peripheral.lock().await = None;` is a temporary: it
\* drops at the end of the statement, before the reconnect loop (282-284).
GuardAfterClear(q) == Release(q)

MonClear ==
    /\ Alive /\ monPc = "clear_wait" /\ Granted(MonTask)
    /\ handle' = Cleared
    /\ lockQueue' = GuardAfterClear(lockQueue)
    /\ monPc' = "rscan"
    /\ UNCHANGED <<selVars, greeting, mainVars, monExit, monList, monTarget, reqVars, envVars,
                   scanFilter>>

\* adapter.start_scan(ScanFilter::default()), then sleep (286-287).
MonStartScan ==
    /\ Alive /\ monPc = "rscan"
    /\ scanFilter' = "all"
    /\ monPc' = "rlist"
    /\ UNCHANGED <<selVars, greeting, mainVars, monExit, monList, monTarget, handle, lockQueue,
                   reqVars, envVars>>

\* let peripherals = adapter.peripherals().await?, inside the loop (289).
MonPeripherals ==
    /\ Alive /\ monPc = "rlist"
    /\ monList' = discovered
    /\ monPc' = "rselect"
    /\ UNCHANGED <<selVars, greeting, mainVars, monExit, monTarget, handle, lockQueue, reqVars,
                   envVars, scanFilter>>

\* find_and_print_peripherals(&peripherals, ..) returned Ok (290-291).
MonSelect(faults) ==
    /\ Alive /\ monPc = "rselect"
    /\ \E props \in PropsFor(monList, faults) :
         LET res == find_and_print_peripherals(monList, props) IN
           /\ ~res.err
           /\ monTarget' = res.val
           /\ monPc' = IF res.val # {} THEN "rstop_found" ELSE "rstop_none"
    /\ monList' = <<>>
    /\ UNCHANGED <<selVars, greeting, mainVars, monExit, handle, lockQueue, reqVars, envVars,
                   scanFilter>>

\* A property read fails inside the selector: `?` twice, the task returns.
MonSelectErr ==
    /\ Alive /\ monPc = "rselect"
    /\ \E props \in PropsFor(monList, TRUE) :
         find_and_print_peripherals(monList, props).err
    /\ monPc' = "returned"
    /\ monExit' = "properties"
    /\ UNCHANGED <<selVars, greeting, mainVars, monList, monTarget, handle, lockQueue, reqVars,
                   envVars, scanFilter>>

\* A target was selected: stop_scan (293).
MonStopFound ==
    /\ Alive /\ monPc = "rstop_found"
    /\ scanFilter' = "off"
    /\ monPc' = "rconnect"
    /\ UNCHANGED <<selVars, greeting, mainVars, monExit, monList, monTarget, handle, lockQueue,
                   reqVars, envVars>>

\* No target: stop_scan, sleep, next iteration (305-306).
MonStopNone ==
    /\ Alive /\ monPc = "rstop_none"
    /\ scanFilter' = "off"
    /\ monPc' = "rscan"
    /\ UNCHANGED <<selVars, greeting, mainVars, monExit, monList, monTarget, handle, lockQueue,
                   reqVars, envVars>>

\* connect_and_discover(&target): peripheral.connect() succeeds (353).
MonConnect ==
    /\ Alive /\ monPc = "rconnect"
    /\ monPc' = "rdiscover"
    /\ UNCHANGED <<selVars, greeting, mainVars, monExit, monList, monTarget, handle, lockQueue,
                   reqVars, envVars, scanFilter>>

\* peripheral.discover_services() succeeds (357).
MonDiscover ==
    /\ Alive /\ monPc = "rdiscover"
    /\ monPc' = "rgreet"
    /\ UNCHANGED <<selVars, greeting, mainVars, monExit, monList, monTarget, handle, lockQueue,
                   reqVars, envVars, scanFilter>>

RetryGivesUp == "returned"

RetryResumesPolling == "tick"

\* Where `if let Err(e) = connect_and_discover(..) { warn!; continue; }` goes.
RetryPc == "rscan"

\* connect or discover_services failed: warn and continue the loop (294-297).
MonConnectFail ==
    /\ Alive /\ monPc \in {"rconnect", "rdiscover"}
    /\ monPc' = RetryPc
    /\ monExit' = IF RetryPc = "returned" THEN monPc ELSE monExit
    /\ monTarget' = {}
    /\ UNCHANGED <<selVars, greeting, mainVars, monList, handle, lockQueue, reqVars, envVars,
                   scanFilter>>

\* The greeting write, result dropped (364); then state.peripheral.lock()
\* is called for the install (299).
MonGreet ==
    /\ Alive /\ monPc = "rgreet"
    /\ \E outcome \in GreetOutcomes :
         /\ greeting' = outcome
         /\ IF GreetingResult(outcome) = "err"
            THEN /\ monPc' = RetryPc
                 /\ monTarget' = {}
                 /\ UNCHANGED lockQueue
            ELSE /\ monPc' = "install_wait"
                 /\ lockQueue' = Acquire(lockQueue, MonTask)
                 /\ UNCHANGED monTarget
    /\ UNCHANGED <<selVars, mainVars, monExit, monList, handle, reqVars,
                   envVars, scanFilter>>

\* *p = Some(target); the guard drops; break to the tick loop (299-303).
MonInstall ==
    /\ Alive /\ monPc = "install_wait" /\ Granted(MonTask)
    /\ handle' = monTarget
    /\ monTarget' = {}
    /\ greeting' = "none"
    /\ lockQueue' = Release(lockQueue)
    /\ monPc' = "tick"
    /\ UNCHANGED <<selVars, mainVars, monExit, monList, reqVars, envVars, scanFilter>>

----------------------------------------------------------------------------
\* Request handlers: send_message_handler, send_message_post and
\* status_handler all end in send_to_peripheral(&state, message).

ListeningFromStart == TRUE

\* axum::serve(listener, app) is running (203-205).
Listening == mainPc = "serving"

\* The body of POST /send, as characters (SendMessageRequest.message).
PostMessage == <<"h", "i">>

\* The UTF-8 code of a character of the message.
Utf8(c) == IF c = "h" THEN 104 ELSE IF c = "i" THEN 105 ELSE 63

AsBytesTruncated(msg) == IF msg = <<>> THEN <<>> ELSE <<Utf8(msg[1])>>

\* message.as_bytes() (383).
AsBytes(msg) == [i \in 1..Len(msg) |-> Utf8(msg[i])]

\* Length of the characteristic lists a connection may report.
MaxChars == 2

\* Characteristic uuids: KEYBOARD_DISPLAY_ID (38) and any other.
CharUuids == {"keyboard_display", "other"}

\* What peripheral.characteristics() can return (375).
CharLists == UNION {[1..n -> CharUuids] : n \in 0..MaxChars}

\* for char in characteristics { if char.uuid == char_uuid { .. } } (377-378)
HasChar(chars, uuid) == \E i \in 1..Len(chars) : chars[i] = uuid

\* The lists in which send_message finds the uuid, and those in which its
\* loop ends without a match.
ListsWith(uuid) == {chars \in CharLists : HasChar(chars, uuid)}
ListsWithout(uuid) == {chars \in CharLists : ~HasChar(chars, uuid)}

\* A request is accepted; its handler calls state.peripheral.lock() (231).
ReqAccept(r) ==
    /\ Alive /\ Listening /\ reqPc[r] = "idle"
    /\ lockQueue' = Acquire(lockQueue, ReqTask(r))
    /\ reqPc' = [reqPc EXCEPT ![r] = "waiting"]
    /\ UNCHANGED <<selVars, greeting, mainVars, monVars, handle, resp, reqWrites, reqFound,
                   reqPayload, envVars, scanFilter>>

UnavailableAsOk == "200"

\* StatusCode::SERVICE_UNAVAILABLE, the else branch of send_to_peripheral.
Unavailable == "503"

\* The guard is held and the handle is None (239-244).
ReqUnavailable(r) ==
    /\ Alive /\ reqPc[r] = "waiting" /\ Granted(ReqTask(r))
    /\ handle = {}
    /\ reqFound' = [reqFound EXCEPT ![r] = "no_device"]
    /\ resp' = [resp EXCEPT ![r] = Unavailable]
    /\ lockQueue' = Release(lockQueue)
    /\ reqPc' = [reqPc EXCEPT ![r] = "done"]
    /\ UNCHANGED <<selVars, greeting, mainVars, monVars, handle, reqWrites, reqPayload, envVars,
                   scanFilter>>

MissingAsError == "500"

\* send_message falls out of its loop: warn!, Ok(()) (391-392), which
\* send_to_peripheral turns into Ok(Json{status: ok}) (236-238).
MissingResult == "200"

\* Some(p), and send_message finds no characteristic with the target uuid.
ReqCharMissing(r) ==
    /\ Alive /\ reqPc[r] = "waiting" /\ Granted(ReqTask(r))
    /\ handle # {}
    /\ ListsWithout("keyboard_display") # {}
    /\ reqFound' = [reqFound EXCEPT ![r] = "missing"]
    /\ resp' = [resp EXCEPT ![r] = MissingResult]
    /\ lockQueue' = Release(lockQueue)
    /\ reqPc' = [reqPc EXCEPT ![r] = "done"]
    /\ UNCHANGED <<selVars, greeting, mainVars, monVars, handle, reqWrites, reqPayload, envVars,
                   scanFilter>>

\* Some(p), and send_message finds the characteristic: peripheral.write(..)
\* is issued with the guard held (382-384).
ReqWriteStart(r) ==
    /\ Alive /\ reqPc[r] = "waiting" /\ Granted(ReqTask(r))
    /\ handle # {}
    /\ ListsWith("keyboard_display") # {}
    /\ reqFound' = [reqFound EXCEPT ![r] = "found"]
    /\ reqWrites' = [reqWrites EXCEPT ![r] = @ + 1]
    /\ reqPayload' = [reqPayload EXCEPT ![r] = AsBytes(PostMessage)]
    /\ reqPc' = [reqPc EXCEPT ![r] = "writing"]
    /\ UNCHANGED <<selVars, greeting, mainVars, monVars, handle, lockQueue, resp, envVars,
                   scanFilter>>

\* The write is acknowledged: Ok(Json{status: ok}) (236-238).
ReqWriteOk(r) ==
    /\ Alive /\ reqPc[r] = "writing"
    /\ resp' = [resp EXCEPT ![r] = "200"]
    /\ lockQueue' = Release(lockQueue)
    /\ reqPc' = [reqPc EXCEPT ![r] = "done"]
    /\ UNCHANGED <<selVars, greeting, mainVars, monVars, handle, reqWrites, reqFound, reqPayload,
                   envVars, scanFilter>>

HandleDroppedOnError == {}

\* send_to_peripheral only reads the Option (`if let Some(ref p)`): a failed
\* write leaves it as it is.
HandleAfterWriteError == handle

\* The write fails: Err((INTERNAL_SERVER_ERROR, e.to_string())) (233-235).
ReqWriteErr(r) ==
    /\ Alive /\ reqPc[r] = "writing"
    /\ resp' = [resp EXCEPT ![r] = "500"]
    /\ handle' = HandleAfterWriteError
    /\ lockQueue' = Release(lockQueue)
    /\ reqPc' = [reqPc EXCEPT ![r] = "done"]
    /\ UNCHANGED <<selVars, greeting, mainVars, monVars, reqWrites, reqFound, reqPayload,
                   envVars, scanFilter>>

\* The response is sent and the task ends; the slot serves the next request.
ReqDone(r) ==
    /\ Alive /\ reqPc[r] = "done"
    /\ reqPc' = [reqPc EXCEPT ![r] = "idle"]
    /\ resp' = [resp EXCEPT ![r] = "none"]
    /\ reqWrites' = [reqWrites EXCEPT ![r] = 0]
    /\ reqFound' = [reqFound EXCEPT ![r] = "unset"]
    /\ reqPayload' = [reqPayload EXCEPT ![r] = <<>>]
    /\ UNCHANGED <<selVars, greeting, mainVars, monVars, handle, lockQueue, envVars, scanFilter>>

----------------------------------------------------------------------------
\* The radio environment seen through the adapter.

\* A device starts or stops listing the controller service in its properties.
EnvAdvertise(d) ==
    /\ advertising' = IF d \in advertising THEN advertising \ {d}
                      ELSE advertising \cup {d}
    /\ UNCHANGED <<selVars, greeting, mainVars, monVars, handle, lockQueue, reqVars, discovered,
                   scanFilter>>

InList(list, d) == \E i \in 1..Len(list) : list[i] = d

\* A running scan reports a device it has not reported before; a scan with
\* the service filter (157-160) reports only devices advertising the service.
EnvDiscover(d) ==
    /\ scanFilter # "off"
    /\ scanFilter = "service" => d \in advertising
    /\ ~InList(discovered, d)
    /\ discovered' = Append(discovered, d)
    /\ UNCHANGED <<selVars, greeting, mainVars, monVars, handle, lockQueue, reqVars, advertising,
                   scanFilter>>

----------------------------------------------------------------------------
MainOk(faults) ==
    \/ MainInit
    \/ MainStartScan
    \/ MainPeripherals
    \/ MainSelect(faults)
    \/ MainStopFound
    \/ MainStopNone
    \/ MainRestart
    \/ MainConnect
    \/ MainDiscover
    \/ MainGreet
    \/ MainPublish
    \/ MainSpawn
    \/ MainBind

MonOk(faults) ==
    \/ MonInit
    \/ MonTick
    \/ MonLocked
    \/ MonPollConnected
    \/ MonPollLost
    \/ MonClear
    \/ MonStartScan
    \/ MonPeripherals
    \/ MonSelect(faults)
    \/ MonStopFound
    \/ MonStopNone
    \/ MonConnect
    \/ MonDiscover
    \/ MonConnectFail
    \/ MonGreet
    \/ MonInstall

ReqNext(r) ==
    \/ ReqAccept(r)
    \/ ReqUnavailable(r)
    \/ ReqCharMissing(r)
    \/ ReqWriteStart(r)
    \/ ReqWriteOk(r)
    \/ ReqWriteErr(r)
    \/ ReqDone(r)

EnvNext == \E d \in Devices : EnvAdvertise(d) \/ EnvDiscover(d)

\* Calls that fail in a way `?` or expect turns into the end of a task.
Faults ==
    \/ MainNoAdapter
    \/ MainFail
    \/ MainSelectErr
    \/ MonFail
    \/ MonSelectErr

Next ==
    \/ MainOk(TRUE)
    \/ MonOk(TRUE)
    \/ \E r \in Reqs : ReqNext(r)
    \/ EnvNext
    \/ Faults

Spec == Init /\ [][Next]_vars

\* find_and_print_peripherals on its own: any device list, any outcome of
\* each property read.
SelInit ==
    /\ mainPc = "init"
    /\ abortCause = "none"
    /\ bootList = <<>>
    /\ bootTarget = {}
    /\ monPc = "off"
    /\ monExit = "none"
    /\ monList = <<>>
    /\ monTarget = {}
    /\ handle = {}
    /\ lockQueue = <<>>
    /\ reqPc = [r \in Reqs |-> "idle"]
    /\ resp = [r \in Reqs |-> "none"]
    /\ reqWrites = [r \in Reqs |-> 0]
    /\ reqFound = [r \in Reqs |-> "unset"]
    /\ reqPayload = [r \in Reqs |-> <<>>]
    /\ advertising = {}
    /\ discovered = <<>>
    /\ scanFilter = "off"
    /\ selList \in SelLists
    /\ selReads \in [1..Len(selList) -> Reads]
    /\ selOut = [ran |-> FALSE, err |-> FALSE, val |-> {}]
    /\ greeting = "none"

\* One call of find_and_print_peripherals(&selList, CONTROLLER_SERVICE_ID).
SelRun ==
    /\ ~selOut.ran
    /\ LET res == find_and_print_peripherals(
                      selList, [i \in 1..Len(selList) |-> PropKind(selReads[i])])
       IN selOut' = [ran |-> TRUE, err |-> res.err, val |-> res.val]
    /\ UNCHANGED <<mainVars, monVars, handle, lockQueue, reqVars, envVars,
                   scanFilter, selList, selReads, greeting>>

SelectorSpec == SelInit /\ [][SelRun]_vars

\* The same system when every adapter call that `?` guards returns Ok and
\* every property read returns the device's properties; connect and
\* discover_services may still fail in the reconnect loop, where the code
\* retries them.
LiveNext ==
    \/ MainOk(FALSE)
    \/ MonOk(FALSE)
    \/ \E r \in Reqs : ReqNext(r)
    \/ EnvNext

\* A handler that was accepted runs to its response.
ReqProgress(r) ==
    \/ ReqUnavailable(r)
    \/ ReqCharMissing(r)
    \/ ReqWriteStart(r)
    \/ ReqWriteOk(r)
    \/ ReqWriteErr(r)
    \/ ReqDone(r)

\* Every task is scheduled and every adapter call returns; connect and
\* discover_services do not fail forever; a running scan reports every
\* device it is allowed to report.
Fairness ==
    /\ WF_vars(MainOk(FALSE))
    /\ WF_vars(MonOk(FALSE))
    /\ SF_vars(MonConnect)
    /\ SF_vars(MonDiscover)
    /\ \A r \in Reqs : WF_vars(ReqProgress(r))
    /\ \A d \in Devices : SF_vars(EnvDiscover(d))

LiveSpec == Init /\ [][LiveNext]_vars /\ Fairness

\* The program with its failures, every task scheduled and every adapter
\* call of the monitor and of the handlers returning (with either result).
FairSpec ==
    /\ Init /\ [][Next]_vars
    /\ WF_vars(MonOk(FALSE))
    /\ \A r \in Reqs : WF_vars(ReqProgress(r))

----------------------------------------------------------------------------
\* Properties.

\* Request writes and monitor polls in flight on the handle's connection.
InProgress ==
    {ReqTask(r) : r \in {x \in Reqs : reqPc[x] = "writing"}}
        \cup (IF monPc = "polling" THEN {MonTask} ELSE {})

\* Connections that exist: the published one, and those an acquisition has
\* connected and not yet published.
Connections ==
    (IF handle # {} THEN 1 ELSE 0)
    + (IF mainPc \in {"discover", "greet", "publish"} THEN 1 ELSE 0)
    + (IF monPc \in {"rdiscover", "rgreet", "install_wait"} THEN 1 ELSE 0)

\* C1: once the liveness poll has reported loss (the monitor has dropped its
\* guard and waits for the lock to clear the handle), no request handler has
\* a characteristic write in flight on that connection.
C1_NoWriteAfterLossDetected ==
    \A r \in Reqs : ~(monPc = "clear_wait" /\ reqPc[r] = "writing")

\* C2: while the monitor is anywhere in its reconnection episode, and while
\* the unfiltered scan only the monitor starts is running, the handle is
\* already empty: the clear precedes start_scan, connect and discover.
C2_ClearBeforeReconnect ==
    (monPc \in ReconnectPcs \/ scanFilter = "all") => handle = {}

C2_Witness == monPc = "rdiscover" /\ scanFilter = "off" /\ handle = {}

\* C3: the connection in the handle and the connections established by an
\* acquisition and not yet published number at most one.
C3_AtMostOneConnection == Connections <= 1

C3_Witness == monPc = "install_wait" /\ monTarget # {} /\ handle = {}

\* C4: at most one request write or liveness poll is in flight at any time,
\* and the handle is cleared or installed only when none is.
C4_HandleOpsExclusive ==
    /\ [](Cardinality(InProgress) <= 1)
    /\ [][handle' # handle => InProgress = {}]_vars

C4_Witness ==
    \E r \in Reqs :
        /\ reqPc[r] = "writing"
        /\ monPc \in {"lock_wait", "clear_wait"}
        /\ Len(lockQueue) >= 3

\* C5: no failure of a bootstrap call before the publish ends the process.
C5_PrePublishFailureNotFatal ==
    abortCause \notin {"start_scan", "peripherals", "properties",
                       "stop_found", "stop_none", "restart", "connect",
                       "discover"}

\* C6: once the monitor runs, the handle is never empty without the monitor
\* being in its reconnect loop.
C6_NeverEmptyWithoutReconnect ==
    (monPc # "off" /\ handle = {}) => monPc \in ReconnectPcs

\* C7: when the adapter calls succeed and a device advertises the service
\* from some point on, bootstrap eventually publishes a connection.
C7_BootstrapReachesReady ==
    <>[](advertising # {}) => <>(handle # {})

\* C8: when a device advertises the service from some point on, every
\* reconnection episode ends with a connection in the handle and the monitor
\* back at its tick.
C8_ReconnectEventuallyInstalls ==
    <>[](advertising # {}) =>
        [](monPc \in ReconnectPcs => <>(handle # {} /\ monPc = "tick"))

C8_Witness == monPc = "rscan" /\ monTarget = {} /\ advertising # {}

\* C9: while main has not reached the listener, no request handler runs; the
\* monitor exists only once main has published and spawned it.
C9_NoRequestBeforeReady ==
    /\ (\E r \in Reqs : reqPc[r] # "idle") => mainPc = "serving"
    /\ monPc # "off" =>
         (mainPc \in {"bind", "serving"} \/ abortCause = "bind")
    /\ (mainPc = "spawn" \/ monPc = "init") => handle # {}

C9_Witness ==
    \E r \in Reqs : reqPc[r] = "waiting" /\ mainPc = "serving" /\ monPc = "tick"

\* C10: a handler that gets the lock while the handle is empty answers 503,
\* issues no write and touches neither handle nor adapter; so every request
\* served during a reconnection episode answers 503, and no write is in
\* flight during the episode.
C10_EmptyHandleGives503 ==
    /\ [][\A r \in Reqs :
            (/\ reqPc[r] = "waiting"
             /\ reqPc'[r] # "waiting"
             /\ (handle = {} \/ monPc \in ReconnectPcs))
            => (/\ resp'[r] = "503"
                /\ reqPc'[r] = "done"
                /\ reqWrites'[r] = 0
                /\ handle' = handle
                /\ scanFilter' = scanFilter)]_vars
    /\ [](monPc \in ReconnectPcs => \A r \in Reqs : reqPc[r] # "writing")

C10_Witness ==
    \E r \in Reqs :
        reqPc[r] = "done" /\ resp[r] = "503" /\ monPc \in ReconnectPcs

\* C11: a handler that found Some(p) without the target characteristic ends
\* with 200, no write and no payload; a handler answers 500 only after it
\* found the characteristic and issued its write.
C11_MissingCharacteristicIsOk ==
    \A r \in Reqs :
        /\ reqFound[r] = "missing" =>
             (/\ reqPc[r] = "done"
              /\ resp[r] = "200"
              /\ reqWrites[r] = 0
              /\ reqPayload[r] = <<>>)
        /\ resp[r] = "500" => (reqFound[r] = "found" /\ reqWrites[r] = 1)

C11_Witness ==
    \E r \in Reqs :
        reqFound[r] = "missing" /\ resp[r] = "200" /\ handle # {}

\* C12: every handler that found the target characteristic has issued
\* exactly one write, carrying the bytes of "hi" in full, and ends with 200
\* or 500; no handler ever issues a second write.
C12_OneFullWritePerRequest ==
    \A r \in Reqs :
        /\ reqWrites[r] <= 1
        /\ reqFound[r] = "found" =>
             (/\ reqWrites[r] = 1
              /\ reqPayload[r] = <<104, 105>>
              /\ reqPc[r] \in {"writing", "done"}
              /\ reqPc[r] = "done" => resp[r] \in {"200", "500"})
        /\ reqFound[r] # "found" => reqWrites[r] = 0

C12_Witness ==
    /\ \A r \in Reqs : reqFound[r] = "found" /\ reqWrites[r] = 1
    /\ \E r \in Reqs : reqPc[r] = "done" /\ resp[r] = "200"

\* The first device of selList, in report order, whose properties were read
\* and list the controller service; {} when there is none.
FirstMatch ==
    LET idx == {i \in 1..Len(selList) :
                    /\ selReads[i].status = "some"
                    /\ TargetService \in selReads[i].services}
    IN IF idx = {} THEN {}
       ELSE {selList[CHOOSE i \in idx : \A j \in idx : i <= j]}

\* C13: for every device list the selector returns the first device in
\* report order whose advertised services contain the target service, and
\* none when there is no such device, whatever the rssi and names.
C13_SelectorReturnsFirstMatch ==
    selOut.ran => (~selOut.err /\ selOut.val = FirstMatch)

\* The part of C13 that the code keeps: when no property read fails, the
\* result is the first match, whatever the rssi and names.
SelectorFirstMatchWhenReadsReturn ==
    (selOut.ran /\ \A i \in 1..Len(selList) : selReads[i].status # "err")
        => (~selOut.err /\ selOut.val = FirstMatch)

\* C14: when the properties of some device cannot be read (the read returns
\* nothing or fails), the selection does not fail: the device counts as
\* non-matching and the result is the first match among the others, or none.
C14_UnreadableDeviceIsSkipped ==
    (selOut.ran /\ \E i \in 1..Len(selList) : selReads[i].status # "some")
        => (~selOut.err /\ selOut.val = FirstMatch)

\* The tasks that have called lock() and not yet dropped the guard.
InQueue(t) == \E i \in 1..Len(lockQueue) : lockQueue[i] = t

\* The task holding the guard is inside its one adapter call.
HolderInAdapterCall ==
    /\ lockQueue # <<>>
    /\ \/ Head(lockQueue) = MonTask /\ monPc = "polling"
       \/ \E r \in Reqs : Head(lockQueue) = ReqTask(r) /\ reqPc[r] = "writing"

\* C15: between lock() and the drop of the guard a task does at most one
\* adapter operation: a handler at most one write, the monitor's tick one
\* is_connected, clear and install none; a task that is scanning,
\* connecting, discovering or sleeping holds no guard and waits for none.
C15_OneAdapterOpPerLockHold ==
    /\ \A i, j \in 1..Len(lockQueue) : lockQueue[i] = lockQueue[j] => i = j
    /\ InQueue(MainTask) <=> mainPc = "publish"
    /\ InQueue(MonTask) <=>
           monPc \in {"lock_wait", "polling", "clear_wait", "install_wait"}
    /\ \A r \in Reqs :
          /\ InQueue(ReqTask(r)) <=> reqPc[r] \in {"waiting", "writing"}
          /\ reqPc[r] = "waiting" => reqWrites[r] = 0
          /\ reqPc[r] = "writing" =>
                 (reqWrites[r] = 1 /\ Head(lockQueue) = ReqTask(r))
    /\ monPc = "polling" => Head(lockQueue) = MonTask
    /\ scanFilter # "off" => (~InQueue(MainTask) /\ ~InQueue(MonTask))

C15_Witness ==
    /\ HolderInAdapterCall
    /\ \E r \in Reqs : reqPc[r] = "writing" /\ reqWrites[r] = 1
    /\ monPc = "lock_wait"

\* main between its first adapter call and the publish (147-184).
BootstrapPcs == {"init", "start_scan", "peripherals", "select", "stop_found",
                 "stop_none", "restart", "connect", "discover", "greet",
                 "publish"}

\* C16: one acquisition attempt at a time. The monitor does not exist while
\* main is still acquiring; the monitor enters its reconnect loop only from
\* the clear, and once in it takes no tick and issues no poll until it has
\* installed a connection (or its task has returned).
C16_OneAcquisitionAtATime ==
    /\ [](mainPc \in BootstrapPcs => monPc = "off")
    /\ [](monPc \in ReconnectPcs => (handle = {} /\ mainPc \notin BootstrapPcs))
    /\ [][/\ (monPc \notin ReconnectPcs /\ monPc' \in ReconnectPcs)
               => (monPc = "clear_wait" /\ monPc' = "rscan" /\ handle' = {})
          /\ (monPc \in ReconnectPcs /\ monPc' \notin ReconnectPcs)
               => \/ monPc' = "returned"
                  \/ monPc = "install_wait" /\ monPc' = "tick" /\ handle' # {}
         ]_vars

C16_Witness ==
    /\ monPc = "install_wait"
    /\ monTarget # {}
    /\ handle = {}
    /\ mainPc = "serving"

\* The step main takes before reaching each pc of an acquisition.
MainPredecessor(pc) ==
    CASE pc = "connect" -> "stop_found"
      [] pc = "discover" -> "connect"
      [] pc = "greet" -> "discover"
      [] pc = "publish" -> "greet"

\* The same for the monitor's reconnect.
MonPredecessor(pc) ==
    CASE pc = "rconnect" -> "rstop_found"
      [] pc = "rdiscover" -> "rconnect"
      [] pc = "rgreet" -> "rdiscover"
      [] pc = "install_wait" -> "rgreet"

\* C17: a connection enters the handle, at bootstrap and on reconnect, only
\* after stop_scan, connect, discover_services and the greeting attempt were
\* made in that order on that same device; whatever the greeting write did
\* (written, write failed, characteristic missing), the task goes on to the
\* publish.
C17_PublishAfterOrderedAcquisition ==
    /\ [](mainPc \in {"connect", "discover", "greet", "publish"}
            => (bootTarget # {} /\ scanFilter = "off"))
    /\ [](monPc \in {"rconnect", "rdiscover", "rgreet", "install_wait"}
            => (monTarget # {} /\ scanFilter = "off"))
    /\ [](mainPc = "publish" \/ monPc = "install_wait"
            => greeting \in GreetOutcomes)
    /\ [][/\ (handle' # handle /\ handle' # {})
               => \/ mainPc = "publish" /\ handle' = bootTarget
                  \/ monPc = "install_wait" /\ handle' = monTarget
          /\ (mainPc' # mainPc
                /\ mainPc' \in {"connect", "discover", "greet", "publish"})
               => (mainPc = MainPredecessor(mainPc')
                     /\ bootTarget' = bootTarget)
          /\ (monPc' # monPc
                /\ monPc' \in {"rconnect", "rdiscover", "rgreet", "install_wait"})
               => (monPc = MonPredecessor(monPc') /\ monTarget' = monTarget)
          /\ (mainPc = "greet" /\ mainPc' # mainPc) => mainPc' = "publish"
          /\ (monPc = "rgreet" /\ monPc' # monPc) => monPc' = "install_wait"
         ]_vars

C17_Witness ==
    /\ mainPc = "spawn"
    /\ handle # {}
    /\ greeting = "write_failed"

\* C19: no step of a request handler changes the handle, whatever it
\* answers; the handle is emptied only by the monitor's clear, which follows
\* a failed poll, and filled only by main's publish or the monitor's
\* install; when a write fails with 500 the connection stays in the handle.
C19_HandlersLeaveHandle ==
    [][/\ (\E r \in Reqs : reqPc'[r] # reqPc[r] \/ resp'[r] # resp[r])
            => handle' = handle
       /\ \A r \in Reqs :
            (resp'[r] = "500" /\ resp[r] # "500")
                => (handle' = handle /\ handle' # {})
       /\ (handle' # handle /\ handle' = {})
            => (monPc = "clear_wait" /\ monPc' = "rscan")
       /\ (handle' # handle /\ handle' # {})
            => (mainPc = "publish" \/ monPc = "install_wait")
       /\ (monPc' = "clear_wait" /\ monPc # "clear_wait") => monPc = "polling"
      ]_vars

C19_Witness ==
    /\ \E r \in Reqs : reqPc[r] = "done" /\ resp[r] = "500"
    /\ handle # {}
    /\ monPc = "tick"

\* C20: every request that was accepted gets its response, whatever the
\* monitor is doing when it arrives: no task keeps the guard forever.
C20_RequestsComplete ==
    \A r \in Reqs :
        reqPc[r] = "waiting" ~>
            (reqPc[r] = "done" /\ resp[r] \in {"200", "500", "503"})

C20_Witness ==
    /\ \E r \in Reqs : reqPc[r] = "done" /\ resp[r] = "503"
    /\ monPc \in ReconnectPcs

\* The monitor has called lock() and the guard is held by a task that is
\* inside an adapter call; if that call never returns, neither does lock().
MonitorBehindAdapterCall ==
    /\ HolderInAdapterCall
    /\ InQueue(MonTask)
    /\ Head(lockQueue) # MonTask

====
